---- MODULE Spec2Model ----
(***************************************************************************)
(* A model of circmimi/miranda.py: the Miranda wrapper (split, run, parse) *)
(* and the MirandaUtils table operations (length join, redundancy filter,  *)
(* cross-boundary flag, alignment ids, event join, grouping).              *)
(*                                                                         *)
(* A pandas DataFrame is a sequence of records (one record per row, one    *)
(* field per column).  Identifiers (query_id, reference_id, ev_id) are     *)
(* small integers, scores are integers, alignment strings are sequences of *)
(* one-character strings.  Columns that no table operation reads (energy,  *)
(* query_start, query_end, aln_length, identity, similarity) are carried   *)
(* through unchanged by every operation and are left out of the rows.      *)
(***************************************************************************)
EXTENDS Integers, Sequences, FiniteSets, TLC

VARIABLES
    stage,       \* position in the table pipeline
    input_df,    \* the table the pipeline started from
    df,          \* the current table
    once_df,     \* the table after the first pass of remove_redundant_result
    err,         \* TRUE once an operation has raised
    grouped,     \* the summary table of get_grouped_results
    line_src,      \* what each line of raw_result was built from
    raw_result,    \* the text handed to parse_result
    binding_sites, \* the table get_binding_sites builds from raw_result
    seq_file,      \* the lines of the sequence file given to Miranda.run
    num_proc,      \* the num_proc given to Miranda.run
    pc,            \* where Miranda.run is
    tmp_dir,       \* the partition directory: "absent", "present" or "removed"
    tmp_files,     \* the lines of each partition file
    procs,         \* each aligner process: running, or exited with a status
    out_files,     \* each partition's result file: whether it exists, its text
    result         \* the string Miranda.run returns

table_vars == <<stage, input_df, df, once_df, err, grouped>>

parse_vars == <<line_src, raw_result, binding_sites>>

run_vars == <<seq_file, num_proc, pc, tmp_dir, tmp_files, procs, out_files, result>>

vars == <<table_vars, parse_vars, run_vars>>

(***************************************************************************)
(* Bounds                                                                  *)
(***************************************************************************)
MaxHits == 3

(***************************************************************************)
(* Sequence helpers                                                        *)
(***************************************************************************)
Range(s) == {s[i] : i \in DOMAIN s}

SeqsUpTo(S, n) == UNION {[1..k -> S] : k \in 0..n}

RECURSIVE KeepRows(_, _, _)
\* the rows of s, from position i on, whose positions are not in drop
KeepRows(s, drop, i) ==
    IF i > Len(s) THEN <<>>
    ELSE IF i \in drop THEN KeepRows(s, drop, i + 1)
    ELSE <<s[i]>> \o KeepRows(s, drop, i + 1)

(***************************************************************************)
(* The tables supplied to the pipeline                                     *)
(***************************************************************************)
\* the value a left merge leaves where the right table has no matching key
NaN == -1

\* exons_len_df: exons_id -> total_len.  Reference 3 has no row.
exons_len_df == (1 :> 100) @@ (2 :> 30)

\* exons_ev_id_df: exons_id -> ev_id.  Reference 3 has no row.
exons_ev_id_df == (1 :> 1) @@ (2 :> 2)

\* a comparison with NaN is False in pandas
Le(a, b) == a # NaN /\ b # NaN /\ a <= b
Lt(a, b) == a # NaN /\ b # NaN /\ a < b

(***************************************************************************)
(* MirandaUtils.append_exons_len                                           *)
(***************************************************************************)
LeftLookup(table, key) == IF key \in DOMAIN table THEN table[key] ELSE NaN

append_exons_len(miranda_df, lens) ==
    [i \in DOMAIN miranda_df |->
        miranda_df[i] @@ [total_len |-> LeftLookup(lens, miranda_df[i].reference_id)]]

(***************************************************************************)
(* MirandaUtils.remove_redundant_result                                    *)
(***************************************************************************)
\* _get_extended_ref_end: the key (query_id, reference_id, ext_ref_end)
_get_extended_ref_end(s) ==
    [query_id |-> s.query_id, reference_id |-> s.reference_id,
     ext_ref_end |-> s.ref_end + s.total_len]

\* the rows with ref_start <= total_len
StartsInside(miranda_df) ==
    SelectSeq(miranda_df, LAMBDA h : Le(h.ref_start, h.total_len))

\* the rows of filtered_df with ref_start == 1
Anchors(filtered_df) == {i \in DOMAIN filtered_df : filtered_df[i].ref_start = 1}

\* the inner merge of the anchors' keys with filtered_df
MergeMatches(filtered_df, i, j) ==
    LET k == _get_extended_ref_end(filtered_df[i]) IN
        /\ filtered_df[j].query_id = k.query_id
        /\ filtered_df[j].reference_id = k.reference_id
        /\ filtered_df[j].ref_end = k.ext_ref_end

\* the spec's reading: the 'index' column holds the matched row's label
DroppedIndexOfMatch(filtered_df) ==
    {j \in DOMAIN filtered_df :
        \E i \in Anchors(filtered_df) : MergeMatches(filtered_df, i, j)}

\* .loc[:, 'index']: the column reset_index() made from the anchors' labels
DroppedIndex(filtered_df) ==
    {i \in Anchors(filtered_df) :
        \E j \in DOMAIN filtered_df : MergeMatches(filtered_df, i, j)}

\* DataFrame.apply on a frame with no rows returns a copy of that frame, which
\* has no ext_ref_end column: the merge then raises KeyError
RaisesKeyError(miranda_df) == Anchors(StartsInside(miranda_df)) = {}

remove_redundant_result(miranda_df) ==
    LET filtered_df == StartsInside(miranda_df) IN
        KeepRows(filtered_df, DroppedIndex(filtered_df), 1)

(***************************************************************************)
(* MirandaUtils.append_cross_boundary                                      *)
(***************************************************************************)
\* the upper comparison not strict
IsCrossBoundaryInclusive(s) ==
    IF Le(s.ref_start, s.total_len) /\ Le(s.total_len, s.ref_end) THEN 1 ELSE 0

_is_cross_boundary(s) ==
    IF Le(s.ref_start, s.total_len) /\ Lt(s.total_len, s.ref_end) THEN 1 ELSE 0

append_cross_boundary(miranda_df_with_len) ==
    [i \in DOMAIN miranda_df_with_len |->
        miranda_df_with_len[i]
            @@ [cross_boundary |-> _is_cross_boundary(miranda_df_with_len[i])]]

(***************************************************************************)
(* MirandaUtils.append_ev_id                                               *)
(***************************************************************************)
\* sort_values(['ev_id', 'query_id', 'score'], ascending=[True, True, False]):
\* x sorts strictly before y; rows without an ev_id sort last
SortsBefore(x, y) ==
    \/ x.ev_id # NaN /\ y.ev_id = NaN
    \/ x.ev_id # NaN /\ y.ev_id # NaN /\ x.ev_id < y.ev_id
    \/ /\ x.ev_id = y.ev_id
       /\ \/ x.query_id < y.query_id
          \/ x.query_id = y.query_id /\ x.score > y.score

RECURSIVE InsertRow(_, _)
\* x put into the sorted rows s, after every row it does not sort before
InsertRow(s, x) ==
    IF s = <<>> THEN <<x>>
    ELSE IF SortsBefore(x, Head(s)) THEN <<x>> \o s
    ELSE <<Head(s)>> \o InsertRow(Tail(s), x)

RECURSIVE SortRows(_, _)
\* the first n rows of s, sorted; rows that compare equal keep their order
SortRows(s, n) ==
    IF n = 0 THEN <<>> ELSE InsertRow(SortRows(s, n - 1), s[n])

append_ev_id(table, ev_ids) ==
    LET merged == [i \in DOMAIN table |->
                      table[i] @@ [ev_id |-> LeftLookup(ev_ids, table[i].reference_id)]]
    IN SortRows(merged, Len(merged))

(***************************************************************************)
(* MirandaUtils.append_merged_aln and generate_aln_id                      *)
(***************************************************************************)
\* the three strings in another order
MergedAlnMapFirst(h) == h.aln_map \o h.aln_mirna \o h.aln_utr

\* reduce(add, [aln_mirna, aln_map, aln_utr])
MergedAln(h) == h.aln_mirna \o h.aln_map \o h.aln_utr

append_merged_aln(miranda_df) ==
    [i \in DOMAIN miranda_df |-> miranda_df[i] @@ [aln |-> MergedAln(miranda_df[i])]]

RECURSIVE Unique(_, _)
\* Series.unique(): the distinct values of the first n entries of s, in the
\* order of their first occurrence
Unique(s, n) ==
    IF n = 0 THEN <<>>
    ELSE LET u == Unique(s, n - 1) IN
         IF \E k \in DOMAIN u : u[k] = s[n] THEN u ELSE Append(u, s[n])

\* the label reset_index() gives a value of all_uniq_alns: its position from 0
UniqueLabel(u, v) == (CHOOSE k \in DOMAIN u : u[k] = v) - 1

generate_aln_id(miranda_df_with_aln) ==
    LET alns == [i \in DOMAIN miranda_df_with_aln |-> miranda_df_with_aln[i].aln]
        all_uniq_alns == Unique(alns, Len(alns))
    IN [i \in DOMAIN miranda_df_with_aln |->
           miranda_df_with_aln[i]
               @@ [aln_id |-> UniqueLabel(all_uniq_alns, miranda_df_with_aln[i].aln)]]

(***************************************************************************)
(* MirandaUtils.get_grouped_results                                        *)
(***************************************************************************)
\* groupby(['ev_id', 'query_id']) leaves out the rows whose key is NaN
GroupKeys(table) ==
    {<<table[i].ev_id, table[i].query_id>> : i \in {k \in DOMAIN table : table[k].ev_id # NaN}}

GroupRows(table, key) ==
    {i \in DOMAIN table : table[i].ev_id = key[1] /\ table[i].query_id = key[2]}

Max(S) == CHOOSE x \in S : \A y \in S : y <= x

\* 'score': 'max'
AggScore(table, rows) == Max({table[i].score : i \in rows})

\* 'aln_id': 'count'
AggAlnIdCountRows(table, rows) == Cardinality(rows)

\* 'aln_id': 'nunique'
AggAlnId(table, rows) == Cardinality({table[i].aln_id : i \in rows})

\* 'cross_boundary': 'max'
AggCrossBoundary(table, rows) == Max({table[i].cross_boundary : i \in rows})

KeyBefore(a, b) == a[1] < b[1] \/ (a[1] = b[1] /\ a[2] < b[2])

RECURSIVE SortedKeys(_)
\* the group keys in ascending order, as groupby sorts them
SortedKeys(K) ==
    IF K = {} THEN <<>>
    ELSE LET m == CHOOSE a \in K : \A b \in K \ {a} : KeyBefore(a, b)
         IN <<m>> \o SortedKeys(K \ {m})

get_grouped_results(miranda_df_with_aln_id) ==
    LET keys == SortedKeys(GroupKeys(miranda_df_with_aln_id)) IN
        [g \in DOMAIN keys |->
            LET rows == GroupRows(miranda_df_with_aln_id, keys[g]) IN
                [ev_id |-> keys[g][1],
                 mirna |-> keys[g][2],
                 max_score |-> AggScore(miranda_df_with_aln_id, rows),
                 count |-> AggAlnId(miranda_df_with_aln_id, rows),
                 cross_boundary |-> AggCrossBoundary(miranda_df_with_aln_id, rows)]]

(***************************************************************************)
(* Text.  A text is a sequence of tokens: "\n", "\t", "=", ".", the digits,*)
(* letters, and, as single tokens, the marker //hit_info and the 14 keys.  *)
(***************************************************************************)
RECURSIVE Split(_, _)
\* str.split(sep): the pieces of s between the occurrences of sep
Split(s, sep) ==
    IF \A i \in DOMAIN s : s[i] # sep THEN <<s>>
    ELSE LET i == CHOOSE k \in DOMAIN s :
                      s[k] = sep /\ \A m \in 1..(k - 1) : s[m] # sep
         IN <<SubSeq(s, 1, i - 1)>> \o Split(SubSeq(s, i + 1, Len(s)), sep)

RECURSIVE Join(_, _)
\* sep.join(pieces)
Join(pieces, sep) ==
    IF pieces = <<>> THEN <<>>
    ELSE IF Len(pieces) = 1 THEN pieces[1]
    ELSE pieces[1] \o <<sep>> \o Join(Tail(pieces), sep)

RECURSIVE Flatten(_)
Flatten(ss) == IF ss = <<>> THEN <<>> ELSE Head(ss) \o Flatten(Tail(ss))

Digits == <<"0", "1", "2", "3", "4", "5", "6", "7", "8", "9">>

IsDigit(c) == \E d \in DOMAIN Digits : Digits[d] = c

DigitValue(c) == (CHOOSE d \in DOMAIN Digits : Digits[d] = c) - 1

RECURSIVE FormatInt(_)
\* the decimal digits of n
FormatInt(n) ==
    IF n < 10 THEN <<Digits[n + 1]>>
    ELSE FormatInt(n \div 10) \o <<Digits[(n % 10) + 1]>>

IsInt(s) == s # <<>> /\ \A i \in DOMAIN s : IsDigit(s[i])

RECURSIVE ParseInt(_)
\* int(s) for a string of decimal digits
ParseInt(s) ==
    IF Len(s) = 1 THEN DigitValue(s[1])
    ELSE 10 * ParseInt(SubSeq(s, 1, Len(s) - 1)) + DigitValue(s[Len(s)])

\* a float is held in hundredths and written with two decimals
FormatFloat(x) ==
    FormatInt(x \div 100) \o <<".">> \o <<Digits[((x \div 10) % 10) + 1], Digits[(x % 10) + 1]>>

IsFloat(s) ==
    LET parts == Split(s, ".") IN
        Len(parts) = 2 /\ IsInt(parts[1]) /\ IsInt(parts[2]) /\ Len(parts[2]) = 2

ParseFloat(s) ==
    LET parts == Split(s, ".") IN 100 * ParseInt(parts[1]) + ParseInt(parts[2])

(***************************************************************************)
(* Miranda.RESULT_TITLE, _get_value, parse_result; get_binding_sites       *)
(***************************************************************************)
RESULT_TITLE ==
    <<"query_id", "reference_id", "score", "energy", "query_start", "query_end",
      "ref_start", "ref_end", "aln_length", "identity", "similarity",
      "aln_mirna", "aln_map", "aln_utr">>

FloatColumns == {"score", "energy", "identity", "similarity"}

IntColumns == {"query_start", "query_end", "ref_start", "ref_end", "aln_length"}

\* kv.split('=')[1]: the piece between the first '=' and the second
ValueOf(kv) == Split(kv, "=")[2]

\* kv.split('=')[1] raises IndexError when kv holds no '='
ValueRaises(kv) == Len(Split(kv, "=")) < 2

_get_value(res_line) ==
    LET kvs == Split(res_line, "\t") IN [k \in DOMAIN kvs |-> ValueOf(kvs[k])]

_get_value_raises(res_line) ==
    LET kvs == Split(res_line, "\t") IN \E k \in DOMAIN kvs : ValueRaises(kvs[k])

\* ^//hit_info\t(.*) with re.M: a line that starts with the marker and a tab
IsResultLine(line) == Len(line) >= 2 /\ line[1] = "//hit_info" /\ line[2] = "\t"

MatchedGroups(raw) ==
    LET matched == SelectSeq(Split(raw, "\n"), IsResultLine) IN
        [m \in DOMAIN matched |-> SubSeq(matched[m], 3, Len(matched[m]))]

parse_result(raw) ==
    LET groups == MatchedGroups(raw) IN [m \in DOMAIN groups |-> _get_value(groups[m])]

parse_result_raises(raw) ==
    LET groups == MatchedGroups(raw) IN \E m \in DOMAIN groups : _get_value_raises(groups[m])

\* astype: the value of column c as its declared kind
AsType(c, s) ==
    IF c \in IntColumns THEN ParseInt(s)
    ELSE IF c \in FloatColumns THEN ParseFloat(s)
    ELSE s

AsTypeRaises(c, s) ==
    \/ c \in IntColumns /\ ~IsInt(s)
    \/ c \in FloatColumns /\ ~IsFloat(s)

\* pd.DataFrame(rows, columns=RESULT_TITLE).astype(...)
BindingSitesRaises(raw) ==
    \/ parse_result_raises(raw)
    \/ LET rows == parse_result(raw) IN
        \E m \in DOMAIN rows :
            \/ Len(rows[m]) # Len(RESULT_TITLE)
            \/ \E k \in DOMAIN RESULT_TITLE : AsTypeRaises(RESULT_TITLE[k], rows[m][k])

BindingSites(raw) ==
    LET rows == parse_result(raw) IN
        [m \in DOMAIN rows |->
            [k \in DOMAIN RESULT_TITLE |-> AsType(RESULT_TITLE[k], rows[m][k])]]

(***************************************************************************)
(* The aligner's result lines                                              *)
(***************************************************************************)
\* the text of a typed value of column c
FormatValue(c, v) ==
    IF c \in IntColumns THEN FormatInt(v)
    ELSE IF c \in FloatColumns THEN FormatFloat(v)
    ELSE v

\* the marker, a tab, and key=value pairs separated by tabs, in title order
ResultLine(values) ==
    <<"//hit_info", "\t">>
        \o Join([k \in DOMAIN RESULT_TITLE |->
                    <<RESULT_TITLE[k], "=">> \o FormatValue(RESULT_TITLE[k], values[k])], "\t")

(***************************************************************************)
(* Miranda._split_file and Miranda.run                                     *)
(***************************************************************************)
\* line.startswith('>')
IsHeader(line) == line.header

RECURSIVE WriteLinesInTurn(_, _, _, _, _)
\* a split that draws the next file for every line
WriteLinesInTurn(lines, i, files, drawn, tmp_f) ==
    IF i > Len(lines) THEN [raised |-> FALSE, files |-> files]
    ELSE IF tmp_f = 0 /\ ~IsHeader(lines[i]) THEN [raised |-> TRUE, files |-> files]
    ELSE LET f == (drawn % Len(files)) + 1 IN
             WriteLinesInTurn(lines, i + 1, [files EXCEPT ![f] = Append(@, lines[i])],
                              drawn + 1, f)

RECURSIVE WriteLines(_, _, _, _, _)
\* the loop over seq_in from line i on: files holds what was written so far,
\* drawn counts the calls of next(tmp_files_iter), and tmp_f, the file the
\* last call returned, is 0 while it is not bound
WriteLines(lines, i, files, drawn, tmp_f) ==
    IF i > Len(lines) THEN [raised |-> FALSE, files |-> files]
    ELSE IF IsHeader(lines[i])
    THEN LET f == (drawn % Len(files)) + 1 IN
             WriteLines(lines, i + 1, [files EXCEPT ![f] = Append(@, lines[i])],
                        drawn + 1, f)
    ELSE IF tmp_f = 0 THEN [raised |-> TRUE, files |-> files]
    ELSE WriteLines(lines, i + 1, [files EXCEPT ![tmp_f] = Append(@, lines[i])],
                    drawn, tmp_f)

\* the partition files after the loop, or raised when a line precedes the
\* first header (tmp_f is read before it is assigned)
SplitLines(lines, num) ==
    WriteLines(lines, 1, [f \in 1..num |-> <<>>], 0, 0)

RECURSIVE Records(_, _)
\* the records of a sequence file from line i on: a header and the lines up
\* to the next header; lines before the first header belong to no record
Records(lines, i) ==
    IF i > Len(lines) THEN <<>>
    ELSE IF ~IsHeader(lines[i]) THEN Records(lines, i + 1)
    ELSE LET rest == {k \in (i + 1)..Len(lines) : IsHeader(lines[k])}
             stop == IF rest = {} THEN Len(lines) + 1
                     ELSE CHOOSE k \in rest : \A m \in rest : k <= m
         IN <<[id |-> lines[i].text,
               sequence |-> [k \in 1..(stop - i - 1) |-> lines[i + k].text]]>>
            \o Records(lines, stop)

\* the aligner's result line for one record: it depends on the record alone
RecordHit(rec) ==
    ResultLine(<< <<"m">>, <<rec.id>>, 14000, 1550, 2, 20, 1, Len(rec.sequence), 18,
                  7500, 8000, <<"A">>, <<"|">>, rec.sequence >>)

\* the text the aligner writes for a sequence file: a banner, then one result
\* line for every record
AlignerOutput(lines) ==
    LET recs == Records(lines, 1) IN
        <<"S", "c", "a", "n", "\n">>
            \o Flatten([k \in DOMAIN recs |-> RecordHit(recs[k]) \o <<"\n">>])

\* the process, file and result variables before Miranda.run is entered
RunIdle ==
    /\ seq_file = <<>>
    /\ num_proc = 0
    /\ pc = "idle"
    /\ tmp_dir = "absent"
    /\ tmp_files = <<>>
    /\ procs = <<>>
    /\ out_files = <<>>
    /\ result = <<>>

(***************************************************************************)
(* The filter pipeline: hits -> append_exons_len -> remove_redundant_result*)
(* (once or twice) -> append_cross_boundary                                *)
(***************************************************************************)
Coords == {<<1, 20>>, <<1, 120>>, <<1, 220>>, <<50, 120>>,
           <<1, 100>>, <<100, 101>>, <<101, 120>>}

FilterHits ==
    {[query_id |-> q, reference_id |-> 1, ref_start |-> c[1], ref_end |-> c[2]] :
        q \in {1, 2}, c \in Coords}
    \cup {[query_id |-> 1, reference_id |-> 2, ref_start |-> 1, ref_end |-> e] :
              e \in {20, 50, 120}}
    \cup {[query_id |-> 1, reference_id |-> 3, ref_start |-> 1, ref_end |-> 20]}

InitFilter ==
    /\ input_df \in SeqsUpTo(FilterHits, MaxHits)
    /\ df = input_df
    /\ stage = "hits"
    /\ once_df = <<>>
    /\ err = FALSE
    /\ grouped = <<>>
    /\ line_src = <<>>
    /\ raw_result = <<>>
    /\ binding_sites = <<>>
    /\ RunIdle

AppendExonsLen ==
    /\ stage = "hits" /\ ~err
    /\ df' = append_exons_len(df, exons_len_df)
    /\ stage' = "with_len"
    /\ UNCHANGED <<input_df, once_df, err, grouped, parse_vars, run_vars>>

RemoveRedundantResult ==
    /\ stage \in {"with_len", "filtered"} /\ ~err
    /\ IF RaisesKeyError(df)
       THEN err' = TRUE /\ UNCHANGED <<df, once_df>>
       ELSE /\ df' = remove_redundant_result(df)
            /\ once_df' = IF stage = "with_len" THEN df' ELSE once_df
            /\ UNCHANGED err
    /\ stage' = IF stage = "with_len" THEN "filtered" ELSE "filtered_twice"
    /\ UNCHANGED <<input_df, grouped, parse_vars, run_vars>>

AppendCrossBoundary ==
    /\ stage \in {"filtered", "filtered_twice"} /\ ~err
    /\ df' = append_cross_boundary(df)
    /\ stage' = "classified"
    /\ UNCHANGED <<input_df, once_df, err, grouped, parse_vars, run_vars>>

NextFilter == AppendExonsLen \/ RemoveRedundantResult \/ AppendCrossBoundary

SpecFilter == InitFilter /\ [][NextFilter]_vars

(***************************************************************************)
(* Claims about the filter pipeline                                        *)
(***************************************************************************)
\* the columns of a parsed hit, without the columns later operations append
Hit(h) ==
    [query_id |-> h.query_id, reference_id |-> h.reference_id,
     ref_start |-> h.ref_start, ref_end |-> h.ref_end]

InTable(h, table) == \E k \in DOMAIN table : Hit(table[k]) = Hit(h)

TotalLenOf(h) == LeftLookup(exons_len_df, h.reference_id)

\* A is a ref_start == 1 hit inside its transcript and B its extended counterpart
IsAnchorOf(A, B) ==
    /\ A.ref_start = 1
    /\ Le(A.ref_start, TotalLenOf(A))
    /\ B.query_id = A.query_id
    /\ B.reference_id = A.reference_id
    /\ B.ref_end = A.ref_end + TotalLenOf(A)

StartsInsideHit(h) == Le(h.ref_start, TotalLenOf(h))

\* B is itself a ref_start == 1 hit with an extended counterpart of its own
HasCounterpart(B, table) ==
    \E k \in DOMAIN table : IsAnchorOf(B, table[k]) /\ StartsInsideHit(table[k])

Filtered == stage = "filtered" /\ ~err

C2_Idempotent ==
    stage = "filtered_twice" => (~err /\ df = once_df)

\* on the tables where the second pass does not raise, it changes nothing
C2_IdempotentUnlessRaised ==
    (stage = "filtered_twice" /\ ~err) => df = once_df

\* C3: a hit whose reference_id has no row in the length table ends the run in
\* an error, so no filtered or classified table is produced from such an input.
C3_MissingLengthIsFatal ==
    (stage \in {"filtered", "filtered_twice", "classified"} /\ ~err) =>
        \A i \in DOMAIN input_df : input_df[i].reference_id \in DOMAIN exons_len_df

\* C4: in the classified table cross_boundary is set exactly when
\* ref_start <= total_len[reference_id] < ref_end; (1, total_len) is not
\* cross-boundary, (total_len, total_len + 1) is, and no hit with
\* ref_start >= total_len + 1 is in the table.
C4_CrossBoundaryExact ==
    stage = "classified" =>
        \A k \in DOMAIN df :
            /\ df[k].reference_id \in DOMAIN exons_len_df
            /\ LET total_len == exons_len_df[df[k].reference_id] IN
                /\ df[k].cross_boundary \in {0, 1}
                /\ df[k].cross_boundary = 1 <=>
                       (df[k].ref_start <= total_len /\ total_len < df[k].ref_end)
                /\ (df[k].ref_start = 1 /\ df[k].ref_end = total_len) =>
                       df[k].cross_boundary = 0
                /\ (df[k].ref_start = total_len /\ df[k].ref_end = total_len + 1) =>
                       df[k].cross_boundary = 1
                /\ ~(df[k].ref_start >= total_len + 1)

C4_Witness ==
    /\ stage = "classified"
    /\ \E k \in DOMAIN df :
        df[k].ref_start = 1 /\ df[k].ref_end = 100 /\ df[k].cross_boundary = 0
    /\ \E k \in DOMAIN df :
        df[k].ref_start = 100 /\ df[k].ref_end = 101 /\ df[k].cross_boundary = 1
    /\ \E i \in DOMAIN input_df :
        input_df[i].reference_id = 1 /\ input_df[i].ref_start = 101

(***************************************************************************)
(* The summary pipeline: classified table -> append_ev_id ->               *)
(* append_merged_aln -> generate_aln_id -> get_grouped_results             *)
(***************************************************************************)
AlnTriples ==
    {<<m, p, u>> : m \in {<<"a">>, <<"a", "b">>},
                   p \in {<<>>, <<"b">>},
                   u \in {<<"c">>, <<"b">>}}

ClusterHits ==
    {[query_id |-> qr[1], reference_id |-> qr[2], score |-> 80, cross_boundary |-> 0,
      aln_mirna |-> t[1], aln_map |-> t[2], aln_utr |-> t[3]] :
        qr \in {<<1, 1>>, <<2, 2>>}, t \in AlnTriples}

\* (score, cross_boundary, alignment) of the hits of the aggregation scenario
AggProfiles ==
    {<<80, 0, <<"a">> >>, <<95, 1, <<"b">> >>, <<95, 0, <<"b">> >>}

AggHits ==
    {[query_id |-> q, reference_id |-> r, score |-> p[1], cross_boundary |-> p[2],
      aln_mirna |-> p[3], aln_map |-> <<"|">>, aln_utr |-> p[3]] :
        q \in {1, 2}, r \in {1, 2, 3}, p \in AggProfiles}

\* a classified table has at least one row: remove_redundant_result raises
\* unless a ref_start == 1 row is left, and it never removes every such row
InitSummary(hits, n) ==
    /\ input_df \in SeqsUpTo(hits, n) \ {<<>>}
    /\ df = input_df
    /\ stage = "classified"
    /\ once_df = <<>>
    /\ err = FALSE
    /\ grouped = <<>>
    /\ line_src = <<>>
    /\ raw_result = <<>>
    /\ binding_sites = <<>>
    /\ RunIdle

InitCluster == InitSummary(ClusterHits, MaxHits)

InitAgg == InitSummary(AggHits, MaxHits)

AppendEvId ==
    /\ stage = "classified"
    /\ df' = append_ev_id(df, exons_ev_id_df)
    /\ stage' = "with_ev_id"
    /\ UNCHANGED <<input_df, once_df, err, grouped, parse_vars, run_vars>>

AppendMergedAln ==
    /\ stage = "with_ev_id"
    /\ df' = append_merged_aln(df)
    /\ stage' = "with_aln"
    /\ UNCHANGED <<input_df, once_df, err, grouped, parse_vars, run_vars>>

GenerateAlnId ==
    /\ stage = "with_aln"
    /\ df' = generate_aln_id(df)
    /\ stage' = "clustered"
    /\ UNCHANGED <<input_df, once_df, err, grouped, parse_vars, run_vars>>

GetGroupedResults ==
    /\ stage = "clustered"
    /\ grouped' = get_grouped_results(df)
    /\ stage' = "grouped"
    /\ UNCHANGED <<input_df, df, once_df, err, parse_vars, run_vars>>

NextSummary == AppendEvId \/ AppendMergedAln \/ GenerateAlnId \/ GetGroupedResults

SpecCluster == InitCluster /\ [][NextSummary]_vars

SpecAgg == InitAgg /\ [][NextSummary]_vars

(***************************************************************************)
(* Claims about the summary pipeline                                       *)
(***************************************************************************)
Triple(h) == <<h.aln_mirna, h.aln_map, h.aln_utr>>

SameLengths(s, t) == \A k \in 1..3 : Len(s[k]) = Len(t[k])

Clustered == stage = "clustered"

\* C5 as stated: two hits get the same aln_id if their (aln_mirna, aln_map,
\* aln_utr) triples are identical, whatever their query_id and reference_id,
\* and different aln_ids if the triples differ.
C5_SameIdIffSameTriple ==
    Clustered =>
        \A i, j \in DOMAIN df :
            (df[i].aln_id = df[j].aln_id) <=> (Triple(df[i]) = Triple(df[j]))

\* C5 as amended: two hits get the same aln_id exactly when the concatenations
\* aln_mirna + aln_map + aln_utr are equal.  Identical triples share an id,
\* whatever the query_id and reference_id, and triples that differ get
\* different ids whenever their three lengths agree.
C5_SameIdIffSameConcatenation ==
    Clustered =>
        \A i, j \in DOMAIN df :
            LET s == Triple(df[i])
                t == Triple(df[j])
            IN /\ (df[i].aln_id = df[j].aln_id) <=> (s[1] \o s[2] \o s[3] = t[1] \o t[2] \o t[3])
               /\ s = t => df[i].aln_id = df[j].aln_id
               /\ (s # t /\ SameLengths(s, t)) => df[i].aln_id # df[j].aln_id

\* two hits of different query_id and reference_id with the same triple share
\* an id, and a third hit, whose triple has the same lengths and differs in one
\* character, has another
C5_Witness ==
    /\ Clustered
    /\ \E i, j, k \in DOMAIN df :
        /\ df[i].query_id # df[j].query_id
        /\ df[i].reference_id # df[j].reference_id
        /\ Triple(df[i]) = << <<"a">>, <<"b">>, <<"c">> >>
        /\ Triple(df[j]) = Triple(df[i])
        /\ Triple(df[k]) = << <<"a">>, <<"b">>, <<"b">> >>
        /\ df[i].aln_id = df[j].aln_id
        /\ df[i].aln_id # df[k].aln_id

\* C6: the summary has exactly one row per (ev_id, query_id) pair of the
\* clustered table; the row holds the maximum score of the pair's hits, the
\* number of their distinct aln_ids and the OR of their cross_boundary flags.
\* A hit without an ev_id belongs to no pair.
C6_SummaryPerPair ==
    stage = "grouped" =>
        /\ \A i \in DOMAIN df :
            df[i].ev_id # NaN =>
                \E g \in DOMAIN grouped :
                    /\ grouped[g].ev_id = df[i].ev_id
                    /\ grouped[g].mirna = df[i].query_id
                    /\ \A g2 \in DOMAIN grouped :
                        (grouped[g2].ev_id = df[i].ev_id /\ grouped[g2].mirna = df[i].query_id)
                            => g2 = g
        /\ \A g \in DOMAIN grouped :
            LET members == {i \in DOMAIN df :
                               df[i].ev_id = grouped[g].ev_id /\ df[i].query_id = grouped[g].mirna}
            IN /\ members # {}
               /\ \E i \in members : df[i].score = grouped[g].max_score
               /\ \A i \in members : df[i].score <= grouped[g].max_score
               /\ grouped[g].count = Cardinality({df[i].aln_id : i \in members})
               /\ grouped[g].cross_boundary = 1 <=> \E i \in members : df[i].cross_boundary = 1
               /\ grouped[g].cross_boundary \in {0, 1}

\* the spec's scenario: (E1, Q1) with hits (80, cluster 1, false),
\* (95, cluster 2, true), (95, cluster 2, false) gives max_score 95, count 2,
\* cross_boundary true
C6_Witness ==
    /\ stage = "grouped"
    /\ Len(df) = 3
    /\ \A i \in DOMAIN df : df[i].ev_id = 1 /\ df[i].query_id = 1
    /\ \E i \in DOMAIN df : df[i].score = 80 /\ df[i].cross_boundary = 0
    /\ \E i, j \in DOMAIN df :
        /\ df[i].score = 95 /\ df[i].cross_boundary = 1
        /\ df[j].score = 95 /\ df[j].cross_boundary = 0
        /\ df[i].aln_id = df[j].aln_id
    /\ grouped = <<[ev_id |-> 1, mirna |-> 1, max_score |-> 95, count |-> 2, cross_boundary |-> 1]>>

\* the event half of C3: a hit whose reference_id has no row in the event
\* table ends the run in an error, so no summary is produced from it
C3_MissingEventIsFatal ==
    stage = "grouped" =>
        \A i \in DOMAIN input_df : input_df[i].reference_id \in DOMAIN exons_ev_id_df

(***************************************************************************)
(* Parsing: raw text -> parse_result -> typed table                        *)
(***************************************************************************)
MaxResultLines == 2

\* string values: plain, empty, and holding the character '='
StrValues == {<<"a">>, <<>>, <<"a", "=", "b">>}

\* the typed values a result line is built from
HitValues ==
    {<<q, <<"r">>, s, 1550, 2, 20, rs, 120, 18, 7500, 8000, <<"A">>, p, <<"U">> >> :
        q \in StrValues, s \in {14000, 9550}, rs \in {1, 20}, p \in StrValues}

\* a banner line of the aligner, and a marker line without key=value pairs
NoteLine == <<"S", "c", "a", "n">>
BrokenLine == <<"//hit_info", "\t", "x">>

\* what a line of the text was built from: hit values, or a line as it is
LineSources ==
    {[kind |-> "hit", values |-> v] : v \in HitValues}
    \cup {[kind |-> "other", values |-> NoteLine], [kind |-> "other", values |-> BrokenLine]}

LineOf(src) == IF src.kind = "hit" THEN ResultLine(src.values) ELSE src.values

TextOf(srcs) == Flatten([i \in DOMAIN srcs |-> LineOf(srcs[i]) \o <<"\n">>])

\* the values of the hit lines of srcs, in order
HitsOf(srcs) ==
    LET hits == SelectSeq(srcs, LAMBDA x : x.kind = "hit") IN
        [i \in DOMAIN hits |-> hits[i].values]

InitParse ==
    /\ line_src \in SeqsUpTo(LineSources, MaxResultLines)
    /\ raw_result = TextOf(line_src)
    /\ binding_sites = <<>>
    /\ stage = "raw"
    /\ input_df = <<>>
    /\ df = <<>>
    /\ once_df = <<>>
    /\ err = FALSE
    /\ grouped = <<>>
    /\ RunIdle

GetBindingSites ==
    /\ stage = "raw"
    /\ IF BindingSitesRaises(raw_result)
       THEN err' = TRUE /\ UNCHANGED binding_sites
       ELSE binding_sites' = BindingSites(raw_result) /\ UNCHANGED err
    /\ stage' = "parsed"
    /\ UNCHANGED <<input_df, df, once_df, grouped, line_src, raw_result, run_vars>>

NextParse == GetBindingSites

SpecParse == InitParse /\ [][NextParse]_vars

HasBrokenLine(srcs) == \E i \in DOMAIN srcs : srcs[i].values = BrokenLine

HasEqualsInValue(srcs) ==
    \E i \in DOMAIN srcs :
        /\ srcs[i].kind = "hit"
        /\ \E k \in {1, 13} : \E n \in DOMAIN srcs[i].values[k] : srcs[i].values[k][n] = "="

\* C10: a text of result lines built from the 14 fields, mixed with lines that
\* do not start with the marker, parses to one record per result line, in
\* order, holding exactly the values the line was built from.
C10_RoundTrip ==
    (stage = "parsed" /\ ~HasBrokenLine(line_src)) =>
        (~err /\ binding_sites = HitsOf(line_src))

\* the round trip holds for the values that hold no '='
C10_RoundTripWithoutEquals ==
    (stage = "parsed" /\ ~HasBrokenLine(line_src) /\ ~HasEqualsInValue(line_src)) =>
        (~err /\ binding_sites = HitsOf(line_src))

(***************************************************************************)
(* Miranda.run: split, launch, wait, read, clean up                        *)
(***************************************************************************)
MaxLines == 4
MaxProcs == 3

SeqLines ==
    {[header |-> TRUE, text |-> "x"], [header |-> TRUE, text |-> "y"],
     [header |-> FALSE, text |-> "G"]}

InitRun ==
    /\ seq_file \in SeqsUpTo(SeqLines, MaxLines)
    /\ num_proc \in 1..MaxProcs
    /\ pc = "start"
    /\ tmp_dir = "absent"
    /\ tmp_files = <<>>
    /\ procs = <<>>
    /\ out_files = <<>>
    /\ result = <<>>
    /\ stage = "idle"
    /\ input_df = <<>>
    /\ df = <<>>
    /\ once_df = <<>>
    /\ err = FALSE
    /\ grouped = <<>>
    /\ line_src = <<>>
    /\ raw_result = <<>>
    /\ binding_sites = <<>>

\* num_proc == 1: sp.run(cmd, stdout=PIPE); return res.stdout
RunSingle ==
    /\ pc = "start" /\ num_proc = 1
    /\ result' = AlignerOutput(seq_file)
    /\ pc' = "returned"
    /\ UNCHANGED <<seq_file, num_proc, tmp_dir, tmp_files, procs, out_files>>
    /\ UNCHANGED <<table_vars, parse_vars>>

\* _split_file up to its yield; io is what the file system does
SplitFile(io) ==
    /\ pc = "start" /\ num_proc > 1
    /\ LET split == SplitLines(seq_file, num_proc) IN
        IF io = "makedirs_fails"
        THEN pc' = "raised" /\ UNCHANGED <<tmp_dir, tmp_files>>
        ELSE IF io = "open_fails" \/ split.raised
        THEN pc' = "raised" /\ tmp_dir' = "present" /\ UNCHANGED tmp_files
        ELSE pc' = "yielded" /\ tmp_dir' = "present" /\ tmp_files' = split.files
    /\ UNCHANGED <<seq_file, num_proc, procs, out_files, result>>
    /\ UNCHANGED <<table_vars, parse_vars>>

\* procs = [sp.Popen(cmd) for cmd in cmds]; a Popen that raises leaves the with
\* block, whose finally removes the directory
Launch(ok) ==
    /\ pc = "yielded"
    /\ IF ok
       THEN /\ procs' = [p \in 1..num_proc |-> [running |-> TRUE, status |-> 0]]
            /\ out_files' = [p \in 1..num_proc |-> [exists |-> FALSE, text |-> <<>>]]
            /\ pc' = "launched"
            /\ UNCHANGED tmp_dir
       ELSE /\ pc' = "raised"
            /\ tmp_dir' = "removed"
            /\ UNCHANGED <<procs, out_files>>
    /\ UNCHANGED <<seq_file, num_proc, tmp_files, result>>
    /\ UNCHANGED <<table_vars, parse_vars>>

\* what a process that fails may leave of the text it had to write
Written(text, how) ==
    IF how = "complete" THEN [exists |-> TRUE, text |-> text]
    ELSE IF how = "partial" THEN [exists |-> TRUE, text |-> SubSeq(text, 1, Len(text) \div 2)]
    ELSE [exists |-> FALSE, text |-> <<>>]

\* an aligner process ends: with status 0 and its result file written, or with
\* another status and the file written, partly written or not created
ProcExit(p, status, how) ==
    /\ pc = "launched"
    /\ procs[p].running
    /\ status = 0 => how = "complete"
    /\ procs' = [procs EXCEPT ![p] = [running |-> FALSE, status |-> status]]
    /\ out_files' = [out_files EXCEPT ![p] = Written(AlignerOutput(tmp_files[p]), how)]
    /\ UNCHANGED <<seq_file, num_proc, pc, tmp_dir, tmp_files, result>>
    /\ UNCHANGED <<table_vars, parse_vars>>

\* for p in procs: p.wait(); then the files are read in order and the with
\* block is left; open() of a file that was not created raises
WaitAndRead ==
    /\ pc = "launched"
    /\ \A p \in DOMAIN procs : ~procs[p].running
    /\ IF \E p \in DOMAIN out_files : ~out_files[p].exists
       THEN pc' = "raised" /\ UNCHANGED result
       ELSE pc' = "returned" /\ result' = Flatten([p \in DOMAIN out_files |-> out_files[p].text])
    /\ tmp_dir' = "removed"
    /\ UNCHANGED <<seq_file, num_proc, tmp_files, procs, out_files>>
    /\ UNCHANGED <<table_vars, parse_vars>>

NextRun ==
    \/ RunSingle
    \/ \E io \in {"ok", "makedirs_fails", "open_fails"} : SplitFile(io)
    \/ \E ok \in BOOLEAN : Launch(ok)
    \/ \E p \in 1..MaxProcs, status \in {0, 1}, how \in {"complete", "partial", "none"} :
        p \in DOMAIN procs /\ ProcExit(p, status, how)
    \/ WaitAndRead

SpecRun == InitRun /\ [][NextRun]_vars

(***************************************************************************)
(* Claims about Miranda.run                                                *)
(***************************************************************************)
\* C7: with num_proc > 1, run returns a result only if every aligner process
\* exited with status 0.
C7_FailedProcessIsFatal ==
    (pc = "returned" /\ num_proc > 1) => \A p \in DOMAIN procs : procs[p].status = 0

\* C8: once the partition directory was created, it is removed by the time run
\* returns or raises.
C8_TmpDirRemoved ==
    (pc \in {"returned", "raised"} /\ tmp_dir # "absent") => tmp_dir = "removed"

\* the directory is removed on every path that reached the yield
C8_TmpDirRemovedAfterYield ==
    (pc \in {"returned", "raised"} /\ tmp_files # <<>>) => tmp_dir = "removed"

HitSet(text) == Range(parse_result(text))

AllSucceeded == \A p \in DOMAIN procs : procs[p].status = 0

\* C9: with num_proc > 1 and every aligner process succeeding, the set of hit
\* records parsed from what run returns is the set parsed from what run
\* returns with num_proc = 1 for the same sequence file.
C9_SplitEquivalence ==
    (pc = "returned" /\ num_proc > 1 /\ AllSucceeded) =>
        /\ ~parse_result_raises(result)
        /\ HitSet(result) = HitSet(AlignerOutput(seq_file))

\* three records over two processes: the round robin wraps, the text differs
\* from the one of a single process, and the hits are the same
C9_Witness ==
    /\ pc = "returned" /\ num_proc = 2 /\ AllSucceeded
    /\ Len(Records(seq_file, 1)) = 3
    /\ Cardinality(HitSet(result)) = 3
    /\ parse_result(result) # parse_result(AlignerOutput(seq_file))
    /\ HitSet(result) = HitSet(AlignerOutput(seq_file))

====
